---- MODULE Spec2Model ----
(***************************************************************************)
(* Model of cogs/menudocs.py of Pyro: the Menudocs cog.                    *)
(*                                                                         *)
(* Text is modelled character by character: a Python str is a TLA+ string, *)
(* read with Len, SubSeq and \o.  The regular expressions of               *)
(* Menudocs.__init__ are transcribed node by node and matched by a         *)
(* backtracking matcher with the priorities of Python's re module.         *)
(* A TLA+ string cannot hold a backtick; the character Tick stands for it. *)
(***************************************************************************)
EXTENDS Integers, Sequences, FiniteSets, TLC

----------------------------------------------------------------------------
(* Python str operations *)

Ch(s, i) == SubSeq(s, i, i)

Min(S) == CHOOSE x \in S : \A y \in S : x <= y

Max(S) == 0 - Min({0 - x : x \in S})

\* s.startswith(p)
StartsWith(s, p) == Len(p) <= Len(s) /\ SubSeq(s, 1, Len(p)) = p

\* the positions j >= i at which sub occurs in s
Occurrences(s, sub, i) ==
    {j \in i..(Len(s) - Len(sub) + 1) : SubSeq(s, j, j + Len(sub) - 1) = sub}

\* sub in s
Contains(s, sub) == Occurrences(s, sub, 1) # {}

\* s.replace(old, new): every non-overlapping occurrence, left to right
RECURSIVE ReplaceFrom(_, _, _, _)
ReplaceFrom(s, old, new, i) ==
    LET occ == Occurrences(s, old, i)
    IN  IF occ = {}
        THEN SubSeq(s, i, Len(s))
        ELSE LET p == Min(occ)
             IN  SubSeq(s, i, p - 1) \o new \o ReplaceFrom(s, old, new, p + Len(old))

Replace(s, old, new) == ReplaceFrom(s, old, new, 1)

\* s.count(sub): the number of non-overlapping occurrences
RECURSIVE CountFrom(_, _, _)
CountFrom(s, sub, i) ==
    LET occ == Occurrences(s, sub, i)
    IN  IF occ = {} THEN 0 ELSE 1 + CountFrom(s, sub, Min(occ) + Len(sub))

Count(s, sub) == CountFrom(s, sub, 1)

\* s.split(sep): a sequence of strings
RECURSIVE SplitFrom(_, _, _)
SplitFrom(s, sep, i) ==
    LET occ == Occurrences(s, sep, i)
    IN  IF occ = {}
        THEN <<SubSeq(s, i, Len(s))>>
        ELSE LET p == Min(occ)
             IN  <<SubSeq(s, i, p - 1)>> \o SplitFrom(s, sep, p + Len(sep))

Split(s, sep) == SplitFrom(s, sep, 1)

\* sep.join(parts)
RECURSIVE Join(_, _)
Join(parts, sep) ==
    IF Len(parts) = 0 THEN ""
    ELSE IF Len(parts) = 1 THEN parts[1]
    ELSE parts[1] \o sep \o Join(Tail(parts), sep)

UpperStr == "ABCDEFGHIJKLMNOPQRSTUVWXYZ"

LowerStr == "abcdefghijklmnopqrstuvwxyz"

LowerChar(c) ==
    LET ks == {k \in 1..Len(UpperStr) : Ch(UpperStr, k) = c}
    IN  IF ks = {} THEN c ELSE Ch(LowerStr, Min(ks))

\* s.lower()
RECURSIVE Lower(_)
Lower(s) ==
    IF Len(s) = 0 THEN ""
    ELSE IF Len(s) = 1 THEN LowerChar(s)
    ELSE LET h == Len(s) \div 2
         IN  Lower(SubSeq(s, 1, h)) \o Lower(SubSeq(s, h + 1, Len(s)))

----------------------------------------------------------------------------
(* Character classes of the patterns *)

CharsOf(s) == {Ch(s, k) : k \in 1..Len(s)}

Letters == CharsOf(UpperStr) \cup CharsOf(LowerStr)

Digits == CharsOf("0123456789")

\* \s (the vertical tab has no TLA+ spelling)
Space == {" ", "\t", "\n", "\r", "\f"}

----------------------------------------------------------------------------
(* Regular expressions: a pattern is a sequence of nodes.                  *)
(*   str  a literal string                                                 *)
(*   rep  a repeated character class: in set (neg: not in set), between    *)
(*        min and max times (unb: no maximum), greedy or lazy              *)
(*   opt  (...)?  greedy                                                   *)
(*   alt  a|b|...  the first branch that lets the rest match               *)
(*   grp  (?P<n>...)                                                       *)

Lit(s) == [t |-> "str", s |-> s]

Rep(set, neg, min, max, unb, greedy) ==
    [t |-> "rep", set |-> set, neg |-> neg, min |-> min, max |-> max,
     unb |-> unb, greedy |-> greedy]

One(set) == Rep(set, FALSE, 1, 1, FALSE, TRUE)

Star(set) == Rep(set, FALSE, 0, 0, TRUE, TRUE)

LazyStar(set) == Rep(set, FALSE, 0, 0, TRUE, FALSE)

Plus(set) == Rep(set, FALSE, 1, 0, TRUE, TRUE)

\* .* : any characters but the line break
DotStar == Rep({"\n"}, TRUE, 0, 0, TRUE, TRUE)

Opt(r) == [t |-> "opt", r |-> r]

Alt(bs) == [t |-> "alt", bs |-> bs]

Grp(n, r) == [t |-> "grp", n |-> n, r |-> r]

GroupNames ==
    {"number", "repo", "func", "def", "close", "name", "cog", "command_type",
     "all", "arg", "arg_type"}

\* m.group(n) of a group that took no part in the match is None
NoGroup == [ok |-> FALSE, s |-> ""]

NoMatch == [ok |-> FALSE, end |-> 0, caps |-> [n \in GroupNames |-> NoGroup]]

\* how many characters from position i on the class r admits, up to its maximum
RunLength(r, s, i) ==
    LET left == Len(s) - i + 1
        most == IF r.unb \/ left < r.max THEN left ELSE r.max
        stop == {j \in i..(i + most - 1) : (Ch(s, j) \in r.set) = r.neg}
    IN  IF stop = {} THEN most ELSE Min(stop) - i

\* of the attempts <<n, match>>, the one Python's backtracking reaches
\* first: the longest n for a greedy repetition, the shortest for a lazy one
FirstOf(attempts, greedy) ==
    LET good == {a \in attempts : a[2].ok}
    IN  IF good = {}
        THEN NoMatch
        ELSE (CHOOSE a \in good :
                \A b \in good : IF greedy THEN b[1] <= a[1] ELSE a[1] <= b[1])[2]

\* the match of the node sequence rs at position i of s that Python's
\* backtracking finds first
RECURSIVE Match(_, _, _, _)
Match(rs, s, i, caps) ==
    IF Len(rs) = 0
    THEN [ok |-> TRUE, end |-> i, caps |-> caps]
    ELSE
    LET r == Head(rs)
        rest == Tail(rs)
    IN  CASE r.t = "str" ->
               IF i + Len(r.s) - 1 <= Len(s) /\ SubSeq(s, i, i + Len(r.s) - 1) = r.s
               THEN Match(rest, s, i + Len(r.s), caps)
               ELSE NoMatch
          [] r.t = "rep" ->
               FirstOf({<<n, Match(rest, s, i + n, caps)>> :
                          n \in r.min..RunLength(r, s, i)}, r.greedy)
          [] r.t = "opt" ->
               FirstOf({<<1, Match(r.r \o rest, s, i, caps)>>,
                        <<0, Match(rest, s, i, caps)>>}, TRUE)
          [] r.t = "alt" ->
               FirstOf({<<b, Match(r.bs[b] \o rest, s, i, caps)>> :
                          b \in 1..Len(r.bs)}, FALSE)
          [] r.t = "grp" ->
               Match(r.r \o <<[t |-> "end", n |-> r.n, from |-> i]>> \o rest, s, i, caps)
          [] r.t = "end" ->
               Match(rest, s, i,
                     [caps EXCEPT ![r.n] = [ok |-> TRUE, s |-> SubSeq(s, r.from, i - 1)]])

\* pattern.search(s): the match at the leftmost position that has one
Search(rs, s) ==
    FirstOf({<<i, Match(rs, s, i, NoMatch.caps)>> : i \in 1..(Len(s) + 1)}, FALSE)

----------------------------------------------------------------------------
(* The patterns compiled in Menudocs.__init__ *)

Word == Letters \cup Digits \cup {"_"}

\* [a-zA-Z= _]
ArgChars == Letters \cup {"=", " ", "_"}

\* \s?
OptSpace == Rep(Space, FALSE, 0, 1, FALSE, TRUE)

\* \s{0,8}
Indent == Rep(Space, FALSE, 0, 8, FALSE, TRUE)

\* . : one character that is no line break
AnyChar == Rep({"\n"}, TRUE, 1, 1, FALSE, TRUE)

\* (command|slash_command|user_command|message_command)
CommandKinds ==
    Alt(<< <<Lit("command")>>, <<Lit("slash_command")>>, <<Lit("user_command")>>,
           <<Lit("message_command")>> >>)

\* (slash_command|user_command|message_command)
ApplicationKinds ==
    Alt(<< <<Lit("slash_command")>>, <<Lit("user_command")>>,
           <<Lit("message_command")>> >>)

\* ##(?P<number>[0-9]+)\s?(?P<repo>[a-zA-Z0-9]*)
issue_regex ==
    <<Lit("##"), Grp("number", <<Plus(Digits)>>), OptSpace,
      Grp("repo", <<Star(Letters \cup Digits)>>)>>

\* \$\$(?P<number>[0-9]+)\s?(?P<repo>[a-zA-Z0-9]*)
pr_regex ==
    <<Lit("$$"), Grp("number", <<Plus(Digits)>>), OptSpace,
      Grp("repo", <<Star(Letters \cup Digits)>>)>>

\* @[a-zA-Z0-9_]*?\.(command|slash_command|user_command|message_command)
\* \([a-zA-Z= _]*?\)\n\s{0,8}(async def .*\((?P<func>self,\s*?ctx.*)\):)
requires_self_removal ==
    <<Lit("@"), LazyStar(Word), Lit("."), CommandKinds,
      Lit("("), LazyStar(ArgChars), Lit(")"), Lit("\n"), Indent,
      Lit("async def "), DotStar, Lit("("),
      Grp("func", <<Lit("self,"), LazyStar(Space), Lit("ctx"), DotStar>>),
      Lit("):")>>

\* @((commands\.)?command|(nextcord\.)?(slash_command|user_command|message_command))
\* \([a-zA-Z= _]*?\)\n\s{0,8}(?P<def>async def .*\()(?P<func>.*)(?P<close>\).*:)
command_requires_self_addition ==
    <<Lit("@"),
      Alt(<< <<Opt(<<Lit("commands.")>>), Lit("command")>>,
             <<Opt(<<Lit("nextcord.")>>), ApplicationKinds>> >>),
      Lit("("), LazyStar(ArgChars), Lit(")"), Lit("\n"), Indent,
      Grp("def", <<Lit("async def "), DotStar, Lit("(")>>),
      Grp("func", <<DotStar>>),
      Grp("close", <<Lit(")"), DotStar, Lit(":")>>)>>

\* @commands\.Cog\.listener\(\)\n\s{0,8}(?P<def>async def .*\()(?P<func>.*)(?P<close>\).*:)
event_requires_self_addition ==
    <<Lit("@commands.Cog.listener()"), Lit("\n"), Indent,
      Grp("def", <<Lit("async def "), DotStar, Lit("(")>>),
      Grp("func", <<DotStar>>),
      Grp("close", <<Lit(")"), DotStar, Lit(":")>>)>>

\* @commands\.command\(\s*?pass_context\s*?=\s*?True\)
command_pass_context ==
    <<Lit("@commands.command("), LazyStar(Space), Lit("pass_context"),
      LazyStar(Space), Lit("="), LazyStar(Space), Lit("True)")>>

\* (?P<name>(?i:client))\s*?=\s*?commands.Bot   (the dot is not escaped)
client_bot ==
    <<Grp("name", <<One({"c", "C"}), One({"l", "L"}), One({"i", "I"}),
                    One({"e", "E"}), One({"n", "N"}), One({"t", "T"})>>),
      LazyStar(Space), Lit("="), LazyStar(Space), Lit("commands"), AnyChar,
      Lit("Bot")>>

\* @((?P<cog>[a-zA-Z0-9_]*?|commands)\.)?
\* (?P<command_type>command|slash_command|user_command|message_command)
\* \([a-zA-Z= _]*?\)\n\s{0,8}(async def .*\()(?P<all>(self,\s*)?
\* ((?P<arg>[a-zA-Z_\s]+):(?P<arg_type>[a-zA-Z\s\.]+))(.*))(\).*:)
invalid_ctx_or_inter_type ==
    <<Lit("@"),
      Opt(<<Grp("cog", <<Alt(<< <<LazyStar(Word)>>, <<Lit("commands")>> >>)>>),
            Lit(".")>>),
      Grp("command_type", <<CommandKinds>>),
      Lit("("), LazyStar(ArgChars), Lit(")"), Lit("\n"), Indent,
      Lit("async def "), DotStar, Lit("("),
      Grp("all", <<Opt(<<Lit("self,"), Star(Space)>>),
                   Grp("arg", <<Plus(Letters \cup {"_"} \cup Space)>>),
                   Lit(":"),
                   Grp("arg_type", <<Plus(Letters \cup Space \cup {"."})>>),
                   DotStar>>),
      Lit(")"), DotStar, Lit(":")>>

----------------------------------------------------------------------------
(* Module constants.  A Discord id is a 64-bit number: it is kept as its  *)
(* decimal spelling.                                                       *)

BASE_MENUDOCS_URL == "https://github.com/menudocs"

MAIN_GUILD == "416512197590777857"

PROJECT_GUILD == "566131499506860045"

MENUDOCS_GUILD_IDS == {MAIN_GUILD, PROJECT_GUILD}

PYTHON_HELP_CHANNEL_IDS ==
    {"621912956627582976", "621913007630319626", "702862760052129822",
     "416522595958259713"}

\* message.guild of a direct message
NoGuild == "None"

----------------------------------------------------------------------------
(* The results of a detector step: None, an embed, or an exception that    *)
(* leaves the coroutine.                                                   *)

None == [kind |-> "None", detector |-> "", old |-> "", new |-> "", fix |-> FALSE]

Raised == [kind |-> "Raise", detector |-> "", old |-> "", new |-> "", fix |-> FALSE]

\* nextcord.Embed(...) whose description shows old under **Old** and new under
\* **New | Fixed** (fix: the description has these two parts), followed by
\* embed.set_author(icon_url=message.guild.me.avatar.url): me.avatar is None
\* for a bot account without an avatar, and .url then raises AttributeError
MakeEmbed(message, detector, old, new, fix) ==
    IF message.me_avatar = "None"
    THEN Raised
    ELSE [kind |-> "Embed", detector |-> detector, old |-> old, new |-> new,
          fix |-> fix]

\* extract_repo without the default
ExtractRepoNoDefault(regex) == regex.caps["repo"].s

extract_repo(regex) ==
    IF regex.caps["repo"].s # "" THEN regex.caps["repo"].s ELSE "pyro"

\* the removal of "self, " with its blank only
FixSelfRemovalWithBlank(initial_func) == Replace(initial_func, "self, ", "")

\* fixed_func of process_requires_self_removal
FixSelfRemoval(initial_func) ==
    LET fixed_func == Replace(initial_func, "self,", "")
    IN  IF Contains(fixed_func, "( c")
        THEN Replace(fixed_func, "( c", "(c")
        ELSE fixed_func

process_requires_self_removal(message) ==
    LET injected_self == Search(requires_self_removal, message.content)
    IN  IF ~injected_self.ok
        THEN None
        ELSE LET initial_func == injected_self.caps["func"].s
             IN  MakeEmbed(message, "requires_self_removal", initial_func,
                           FixSelfRemoval(initial_func), TRUE)

\* args_group.startswith("self")
HasSelf(args_group) == StartsWith(args_group, "self")

\* final_func of process_requires_self_addition
FixSelfAddition(to_use_regex) ==
    to_use_regex.caps["def"].s \o ("self, " \o to_use_regex.caps["func"].s)
        \o to_use_regex.caps["close"].s

process_requires_self_addition(message) ==
    LET event == Search(event_requires_self_addition, message.content)
        command == Search(command_requires_self_addition, message.content)
        to_use_regex == IF event.ok THEN event ELSE command
    IN  IF ~event.ok /\ ~command.ok
        THEN None
        ELSE IF HasSelf(to_use_regex.caps["func"].s)
        THEN None
        ELSE MakeEmbed(message, "requires_self_addition",
                       to_use_regex.caps["def"].s \o to_use_regex.caps["func"].s
                           \o to_use_regex.caps["close"].s,
                       FixSelfAddition(to_use_regex), TRUE)

process_pass_context(message) ==
    IF ~Search(command_pass_context, message.content).ok
    THEN None
    ELSE MakeEmbed(message, "pass_context", "", "", FALSE)

process_client_bot(message) ==
    LET found == Search(client_bot, message.content)
    IN  IF ~found.ok
        THEN None
        ELSE MakeEmbed(message, "client_bot", found.caps["name"].s, "", FALSE)

\* the branch process_invalid_ctx_or_inter_type takes on a match
CtxOrInterBranch(command_type, arg_type) ==
    IF command_type = "command" /\ Contains(Lower(arg_type), "interaction")
    THEN "context"
    ELSE IF command_type # "command" /\ Contains(Lower(arg_type), "context")
    THEN "interaction"
    ELSE "else"

\* all_params after all_params.replace(arg_type, new_arg_type)
FixCtxOrInterType(branch, arg_type, all_params) ==
    Replace(all_params, arg_type,
            IF branch = "context" THEN " commands.Context"
            ELSE " nextcord.Interaction")

process_invalid_ctx_or_inter_type(message) ==
    LET found == Search(invalid_ctx_or_inter_type, message.content)
    IN  IF ~found.ok
        THEN None
        ELSE LET arg_type == found.caps["arg_type"].s
                 old_all_params == found.caps["all"].s
                 branch == CtxOrInterBranch(found.caps["command_type"].s, arg_type)
             IN  IF branch = "else"
                 THEN None
                 ELSE MakeEmbed(message, "invalid_ctx_or_inter_type", old_all_params,
                                FixCtxOrInterType(branch, arg_type, old_all_params),
                                TRUE)

\* the five detector steps of on_message, in the order it awaits them
Detectors ==
    <<"requires_self_removal", "requires_self_addition", "pass_context",
      "client_bot", "invalid_ctx_or_inter_type">>

Detect(d, message) ==
    CASE d = "requires_self_removal" -> process_requires_self_removal(message)
      [] d = "requires_self_addition" -> process_requires_self_addition(message)
      [] d = "pass_context" -> process_pass_context(message)
      [] d = "client_bot" -> process_client_bot(message)
      [] d = "invalid_ctx_or_inter_type" -> process_invalid_ctx_or_inter_type(message)

----------------------------------------------------------------------------
(* extract_code *)

\* stands for the backtick
Tick == "~"

\* the code fence
Fence == Tick \o Tick \o Tick

\* the loop of extract_code over parsed_lst from its k-th item on
RECURSIVE ExtractLoop(_, _, _, _, _)
ExtractLoop(parsed_lst, k, is_codeblock, current, content) ==
    IF k > Len(parsed_lst)
    THEN content
    ELSE LET item == parsed_lst[k]
         IN  IF Contains(item, Fence)
             THEN IF is_codeblock
                  THEN ExtractLoop(parsed_lst, k + 1, FALSE, <<>>,
                                   Append(content, Join(current, "\n")))
                  ELSE ExtractLoop(parsed_lst, k + 1, TRUE, current, content)
             ELSE IF is_codeblock
             THEN ExtractLoop(parsed_lst, k + 1, is_codeblock, Append(current, item),
                              content)
             ELSE ExtractLoop(parsed_lst, k + 1, is_codeblock, current, content)

extract_code(message_content) ==
    ExtractLoop(Split(message_content, "\n"), 1, FALSE, <<>>, <<>>)

----------------------------------------------------------------------------
(* Inputs *)

\* the largest number of on_message invocations in flight together
MaxInvocations == 2

\* the most lines of a text given to extract_code
MaxLines == 3

Guilds == {MAIN_GUILD, PROJECT_GUILD, "111111111111111111", NoGuild}

\* two help channels and one that is none
Channels == {"621912956627582976", "416522595958259713", "416512197590777860"}

\* Cross-reference shorthand, built from its parts: text before, the sigil,
\* the number, at most one blank, a repo name of letters and digits (or none),
\* and text after that starts with neither a letter nor a digit.
XrefParts ==
    [pre : {"", "see "}, sigil : {"##", "$$"}, number : {"7", "42"},
     sep : {"", " "}, repo : {"", "docs"}, post : {"", ", ok"}]

XrefText(x) == x.pre \o x.sigil \o x.number \o x.sep \o x.repo \o x.post

\* both kinds in one message, the pull request named first
BothParts ==
    {<<a, b>> \in XrefParts \X XrefParts :
        /\ a.sigil = "$$" /\ b.sigil = "##"
        /\ a.pre = "" /\ b.pre = "" /\ a.post = ", ok" /\ b.post = ""
        /\ a.sep = " " /\ b.sep = " " /\ a.number = "7" /\ b.number = "42"}

BothText(ab) == XrefText(ab[1]) \o XrefText(ab[2])

Decorators ==
    {"@bot.command()", "@commands.command()", "@commands.Cog.listener()",
     "@commands.command(pass_context=True)", "@bot.slash_command()",
     "@nextcord.slash_command()"}

Params ==
    {"self, ctx", "self,ctx", "ctx", "", "self", "self, ctx, myself, x",
     "ctx: commands.Context", "ctx: Interaction", "self, i: nextcord.Interaction",
     "self, ctx: Context", "i: Interaction, j: Interaction"}

\* a decorated definition
Definition(decorator, indent, params, close) ==
    decorator \o "\n" \o indent \o "async def f(" \o params \o close

CodeTexts ==
    {Definition(d, "", p, "):") : d \in Decorators, p \in Params}
    \cup {Definition(d, "    ", p, ") -> None:") :
            d \in {"@bot.command()", "@commands.command()"},
            p \in {"self, ctx", "ctx", "i: Interaction"}}
    \cup {"client = commands.Bot()", "Client=commands.Bot", "bot = commands.Bot()",
          "client = commands.Bot()\n" \o Definition("@client.command()", "", "self, ctx", "):"),
          "client = commands.Bot()\n"
              \o Definition("@commands.command(pass_context=True)", "", "i: Interaction", "):"),
          "##42 docs\n" \o Definition("@bot.command()", "", "self, ctx", "):"),
          Definition("@commands.Cog.listener()", "", "ctx, x=d()", "):"),
          Definition("@commands.command()", "", "self, x=d()", "):"),
          "hi"}

Contents ==
    {XrefText(x) : x \in XrefParts} \cup {BothText(ab) : ab \in BothParts}
    \cup CodeTexts

\* the lines a text for extract_code is made of
LineKinds == {Fence, Fence \o "py", "x = 1", "", Fence \o "x" \o Fence, "see " \o Fence}

Texts ==
    {Join(lines, "\n") :
        lines \in UNION {[1..n -> LineKinds] : n \in 1..MaxLines}}

\* message events: guild NoGuild is a direct message; me_avatar is
\* message.guild.me.avatar, None for a bot account without an avatar
Message(id, guild, channel, content, me_avatar) ==
    [id |-> id, author |-> "<@" \o id \o ">", guild |-> guild, channel |-> channel,
     content |-> content, me_avatar |-> me_avatar]

Messages ==
    {Message("1", g, c, t, a) :
        g \in Guilds, c \in Channels, t \in Contents, a \in {"Asset", "None"}}

\* distinct messages that are in flight together
ConcurrentMessages ==
    {Message("1", MAIN_GUILD, "621912956627582976",
             "##42 docs\nclient = commands.Bot()", "Asset"),
     Message("2", PROJECT_GUILD, "621912956627582976",
             "@commands.command(pass_context=True)", "Asset"),
     Message("3", MAIN_GUILD, "416512197590777860", "$$7", "Asset")}

----------------------------------------------------------------------------
(* State *)

VARIABLES
    inv,        \* inv[i]: the i-th on_message invocation: its position and locals
    sent,       \* sent[i]: what the i-th invocation's channel.send calls delivered
    text,       \* the content given to extract_code
    extracted,  \* what extract_code returned for it
    paste       \* the invocation of the paste command: its position and locals

vars == <<inv, sent, text, extracted, paste>>

Invocations == 1..MaxInvocations

NoMessage == Message("0", NoGuild, "", "", "None")

Idle == [pc |-> "idle", message |-> NoMessage, auto_help_embeds |-> <<>>,
         returned |-> <<>>]

----------------------------------------------------------------------------
(* on_message *)

\* the scope gate without the allow-list
InAnyGuild(message) == message.guild # NoGuild

\* not (not message.guild or message.guild.id not in MENUDOCS_GUILD_IDS)
InMenudocsGuild(message) ==
    message.guild # NoGuild /\ message.guild \in MENUDOCS_GUILD_IDS

\* the channel gate left out
InAnyChannel(message) == TRUE

InHelpChannel(message) == message.channel \in PYTHON_HELP_CHANNEL_IDS

\* f"{BASE_MENUDOCS_URL}/{repo}/issues/{number}", or /pull/
LinkUrl(regex, part) ==
    BASE_MENUDOCS_URL \o "/" \o extract_repo(regex) \o "/" \o part \o "/"
        \o regex.caps["number"].s

\* message.channel.send(content, embeds=embeds)
Send(message, content, embeds) ==
    [channel |-> message.channel, content |-> content, embeds |-> embeds]

\* the sends of "search, and if it matched send the link"
LinkSends(message, pattern, part) ==
    LET regex == Search(pattern, message.content)
    IN  IF regex.ok THEN <<Send(message, LinkUrl(regex, part), <<>>)>> ELSE <<>>

\* the embed put first
PrependEmbed(auto_help_embeds, embed) == <<embed>> \o auto_help_embeds

\* auto_help_embeds.append(embed)
AppendEmbed(auto_help_embeds, embed) == Append(auto_help_embeds, embed)

\* the preface that is singular for any number of embeds
PrefaceAlwaysThis(message, auto_help_embeds) ==
    message.author \o " " \o "this" \o " might help."

\* the preface of the aggregated reply
Preface(message, auto_help_embeds) ==
    message.author \o " "
        \o (IF Len(auto_help_embeds) = 1 THEN "this" ELSE "these")
        \o " might help."

\* one reply for each embed
ReplyPerEmbed(message, auto_help_embeds) ==
    [k \in 1..Len(auto_help_embeds) |->
        [channel |-> message.channel,
         content |-> message.author \o " this might help.",
         embeds |-> <<auto_help_embeds[k]>>]]

\* the sends of "if not auto_help_embeds: return; send the reply"
ReplySends(message, auto_help_embeds) ==
    IF Len(auto_help_embeds) = 0
    THEN <<>>
    ELSE <<Send(message, Preface(message, auto_help_embeds), auto_help_embeds)>>

\* one list on the cog, shared by all invocations
SharedEmbeds(i) == inv[1].auto_help_embeds

\* the list the i-th invocation appends to and replies with: a local
auto_help_embeds(i) == inv[i].auto_help_embeds

\* the event loop starts on_message for message m
Receive(i, m) ==
    /\ inv[i].pc = "idle"
    /\ \A j \in Invocations : inv[j].message.id # m.id
    /\ inv' = [inv EXCEPT ![i] = [Idle EXCEPT !.pc = "scope", !.message = m]]
    /\ UNCHANGED <<sent, text, extracted, paste>>

\* lines 102-104
ScopeGate(i) ==
    /\ inv[i].pc = "scope"
    /\ inv' = [inv EXCEPT ![i].pc =
                 IF InMenudocsGuild(inv[i].message) THEN "issue" ELSE "done"]
    /\ UNCHANGED <<sent, text, extracted, paste>>

\* lines 106-111
IssueLink(i) ==
    /\ inv[i].pc = "issue"
    /\ sent' = [sent EXCEPT ![i] = @ \o LinkSends(inv[i].message, issue_regex, "issues")]
    /\ inv' = [inv EXCEPT ![i].pc = "pr"]
    /\ UNCHANGED <<text, extracted, paste>>

\* lines 113-118
PrLink(i) ==
    /\ inv[i].pc = "pr"
    /\ sent' = [sent EXCEPT ![i] = @ \o LinkSends(inv[i].message, pr_regex, "pull")]
    /\ inv' = [inv EXCEPT ![i].pc = "channel"]
    /\ UNCHANGED <<text, extracted, paste>>

\* lines 120-124
ChannelGate(i) ==
    /\ inv[i].pc = "channel"
    /\ inv' = [inv EXCEPT ![i].pc =
                 IF InHelpChannel(inv[i].message) THEN "detect" ELSE "done",
                          ![i].auto_help_embeds = <<>>]
    /\ UNCHANGED <<sent, text, extracted, paste>>

\* lines 126-150: the next detector step.  returned lists the steps that
\* returned an embed; a step that raises ends the invocation, for on_message
\* catches nothing.
DetectorStep(i) ==
    /\ inv[i].pc = "detect"
    /\ LET k == Len(inv[i].returned) + 1
           d == Detectors[k]
           result == Detect(d, inv[i].message)
       IN  inv' = [inv EXCEPT
                ![i].pc = IF result.kind = "Raise" THEN "raised"
                          ELSE IF k = Len(Detectors) THEN "reply" ELSE "detect",
                ![i].returned = Append(@, result.kind),
                ![i].auto_help_embeds =
                    IF result.kind = "Embed"
                    THEN AppendEmbed(auto_help_embeds(i), result)
                    ELSE auto_help_embeds(i)]
    /\ UNCHANGED <<sent, text, extracted, paste>>

\* lines 152-158
SendReply(i) ==
    /\ inv[i].pc = "reply"
    /\ sent' = [sent EXCEPT ![i] = @ \o ReplySends(inv[i].message, auto_help_embeds(i))]
    /\ inv' = [inv EXCEPT ![i].pc = "done"]
    /\ UNCHANGED <<text, extracted, paste>>

----------------------------------------------------------------------------
(* The paste command *)

\* the largest number of messages given to the command
MaxGiven == 3

\* ctx.guild.me.mention, ctx.author.mention and another member's
Me == "<@0>"

Invoker == "<@1>"

Member == "<@2>"

\* ctx.message
Invoking == [author |-> Invoker, content |-> "py.paste"]

\* messages the command is given, or finds in the channel history
PasteMessages ==
    {[author |-> Member, content |-> Fence \o "py\nx = 1\n" \o Fence],
     [author |-> Member,
      content |-> Fence \o "\nx = 1\n" \o Fence \o "\n" \o Fence \o "\nNameError\n" \o Fence],
     [author |-> Invoker, content |-> "it fails"],
     [author |-> Invoker, content |-> "see\n" \o Fence \o "\nx = 1\n" \o Fence]}

\* the messages argument; <<>> is the default, None
Given == UNION {[1..n -> PasteMessages] : n \in 0..MaxGiven}

\* ctx.channel.history(limit=2), newest first
Histories ==
    LET InChannel == PasteMessages \cup {Invoking, [author |-> Me, content |-> "Hey"]}
    IN  UNION {[1..n -> InChannel] : n \in 1..2}

\* the outcomes of axew.async_create_paste
Outcomes == {"entry", "BaseAxewException"}

IdlePaste ==
    [pc |-> "idle", given |-> <<>>, messages |-> <<>>, code |-> <<>>,
     calls |-> <<>>, created |-> "", sends |-> <<>>, deleted |-> FALSE]

\* lines 415-423: the messages of the history that are not the bot's, the
\* older one dropped when the two have different authors
FromHistory(history) ==
    LET NotMine(message) == message.author # Me
        messages == SelectSeq(history, NotMine)
    IN  IF Len(messages) = 2 /\ messages[1].author # messages[2].author
        THEN <<messages[1]>>
        ELSE messages

\* lines 429-433
CodeOf(messages) ==
    IF Len(messages) = 1
    THEN extract_code(messages[1].content)
    ELSE extract_code(messages[1].content) \o extract_code(messages[2].content)

\* lines 440-444
ErrorOf(code) == IF Len(code) >= 2 THEN code[2] ELSE ""

\* the command going on after a failed call
AfterCreatePasteNoReturn(outcome) == "announce"

\* lines 446-453: the except clause returns, anything else goes on
AfterCreatePaste(outcome) ==
    IF outcome = "BaseAxewException" THEN "done" ELSE "announce"

\* ctx.send(content, embed=embed); embed is the title of the embed, "" for none
CtxSend(content, embed) == [content |-> content, embed |-> embed]

\* lines 455-459
mention_turnery(messages) ==
    IF Invoker # messages[1].author
    THEN Invoker \o " and " \o messages[1].author
    ELSE Invoker

\* lines 407-412: the command is invoked with its messages argument
PasteInvoke(given) ==
    /\ paste.pc = "idle"
    /\ paste' = [paste EXCEPT !.pc = "collect", !.given = given]
    /\ UNCHANGED <<inv, sent, text, extracted>>

\* lines 413-423: with no messages given, the channel history is read
PasteCollect ==
    /\ paste.pc = "collect"
    /\ \E history \in Histories :
         paste' = [paste EXCEPT
             !.pc = "check",
             !.messages = IF paste.given = <<>> THEN FromHistory(history)
                          ELSE paste.given]
    /\ UNCHANGED <<inv, sent, text, extracted>>

\* lines 425-444: the two early exits before the paste host is called;
\* messages[0] of an empty list raises IndexError
PasteCheck ==
    /\ paste.pc = "check"
    /\ LET messages == paste.messages
           total_messages == Len(messages)
       IN  IF total_messages > 2
           THEN paste' = [paste EXCEPT
                    !.pc = "done",
                    !.sends = Append(@, CtxSend(
                        "I can only convert 1 or 2 messages to a paste", ""))]
           ELSE IF total_messages = 0
           THEN paste' = [paste EXCEPT !.pc = "raised"]
           ELSE IF CodeOf(messages) = <<>>
           THEN paste' = [paste EXCEPT
                    !.pc = "done",
                    !.sends = Append(@, CtxSend(
                        "Couldn't extract anything to store", ""))]
           ELSE paste' = [paste EXCEPT !.pc = "upload", !.code = CodeOf(messages)]
    /\ UNCHANGED <<inv, sent, text, extracted>>

\* lines 446-453: the call of the paste host, which answers with an entry or
\* fails with its exception
PasteUpload ==
    /\ paste.pc = "upload"
    /\ \E outcome \in Outcomes :
         paste' = [paste EXCEPT
             !.pc = AfterCreatePaste(outcome),
             !.calls = Append(@, [code |-> paste.code[1], error |-> ErrorOf(paste.code)]),
             !.created = outcome,
             !.sends = IF outcome = "BaseAxewException"
                       THEN Append(@, CtxSend("BaseAxewException", ""))
                       ELSE @]
    /\ UNCHANGED <<inv, sent, text, extracted>>

\* lines 455-470
PasteAnnounce ==
    /\ paste.pc = "announce"
    /\ paste' = [paste EXCEPT
           !.pc = "delete",
           !.sends = Append(@, CtxSend("Hey, " \o mention_turnery(paste.messages),
                                       "Find your paste here"))]
    /\ UNCHANGED <<inv, sent, text, extracted>>

\* line 471
PasteDelete ==
    /\ paste.pc = "delete"
    /\ paste' = [paste EXCEPT !.pc = "done", !.deleted = TRUE]
    /\ UNCHANGED <<inv, sent, text, extracted>>

----------------------------------------------------------------------------
(* Specifications *)

\* one invocation, every message
Init ==
    /\ inv = [i \in Invocations |-> Idle]
    /\ sent = [i \in Invocations |-> <<>>]
    /\ text = ""
    /\ extracted = [done |-> FALSE, content |-> <<>>]
    /\ paste = IdlePaste

OnMessage(i) ==
    \/ ScopeGate(i)
    \/ IssueLink(i)
    \/ PrLink(i)
    \/ ChannelGate(i)
    \/ DetectorStep(i)
    \/ SendReply(i)

Next ==
    \/ \E m \in Messages : Receive(1, m)
    \/ OnMessage(1)

Spec == Init /\ [][Next]_vars

\* invocations for distinct messages, interleaved at every step
NextConcurrent ==
    \E i \in Invocations :
        \/ \E m \in ConcurrentMessages : Receive(i, m)
        \/ OnMessage(i)

SpecConcurrent == Init /\ [][NextConcurrent]_vars

\* extract_code applied to a text
ExtractCode ==
    /\ ~extracted.done
    /\ extracted' = [done |-> TRUE, content |-> extract_code(text)]
    /\ UNCHANGED <<inv, sent, text, paste>>

InitExtract ==
    /\ inv = [i \in Invocations |-> Idle]
    /\ sent = [i \in Invocations |-> <<>>]
    /\ text \in Texts
    /\ extracted = [done |-> FALSE, content |-> <<>>]
    /\ paste = IdlePaste

SpecExtract == InitExtract /\ [][ExtractCode]_vars

\* the paste command, for every messages argument
NextPaste ==
    \/ \E given \in Given : PasteInvoke(given)
    \/ PasteCollect
    \/ PasteCheck
    \/ PasteUpload
    \/ PasteAnnounce
    \/ PasteDelete

SpecPaste == Init /\ [][NextPaste]_vars

----------------------------------------------------------------------------
(* What on_message does for one message when nothing else runs *)

\* the embeds of the detector steps that return one, in the order of the steps
EmbedsOf(message) ==
    LET results == [k \in 1..Len(Detectors) |-> Detect(Detectors[k], message)]
        IsEmbed(r) == r.kind = "Embed"
    IN  IF \E k \in 1..Len(Detectors) : results[k].kind = "Raise"
        THEN <<>>
        ELSE SelectSeq(results, IsEmbed)

RunAlone(message) ==
    IF ~InMenudocsGuild(message)
    THEN <<>>
    ELSE LinkSends(message, issue_regex, "issues")
         \o LinkSends(message, pr_regex, "pull")
         \o (IF InHelpChannel(message)
             THEN ReplySends(message, EmbedsOf(message))
             ELSE <<>>)

----------------------------------------------------------------------------
(* Claims *)

IsReply(send) == Len(send.embeds) > 0

IsLink(send) == Len(send.embeds) = 0

Replies(i) == SelectSeq(sent[i], IsReply)

Links(i) == SelectSeq(sent[i], IsLink)

Finished(i) == inv[i].pc \in {"done", "raised"}

IsEmbedKind(kind) == kind = "Embed"

IsRaiseKind(kind) == kind = "Raise"

\* the number of detector steps of invocation i that returned an embed
ReturnedCount(i) == Len(SelectSeq(inv[i].returned, IsEmbedKind))

IsPrefix(a, b) == Len(a) <= Len(b) /\ SubSeq(b, 1, Len(a)) = a

\* the link the shorthand x stands for
XrefUrl(x) ==
    "https://github.com/menudocs/" \o (IF x.repo = "" THEN "pyro" ELSE x.repo)
        \o (IF x.sigil = "##" THEN "/issues/" ELSE "/pull/") \o x.number

\* C1: a message with no guild, or whose guild is not in MENUDOCS_GUILD_IDS,
\* makes on_message return at once: nothing is sent and no later step runs,
\* whatever its content and channel.
C1_ScopeGate ==
    \A i \in Invocations :
        (inv[i].pc # "idle"
            /\ (inv[i].message.guild = NoGuild
                \/ inv[i].message.guild \notin {MAIN_GUILD, PROJECT_GUILD}))
        => (sent[i] = <<>> /\ inv[i].pc \in {"scope", "done"}
            /\ inv[i].returned = <<>>)

\* C1 witness: a message of another guild, in a help channel, with shorthand
\* and a definition a detector matches, was handled and nothing was sent.
C1_Witness ==
    /\ inv[1].pc = "done"
    /\ inv[1].message.guild = "111111111111111111"
    /\ inv[1].message.channel = "621912956627582976"
    /\ inv[1].message.content = "##42 docs\n@bot.command()\nasync def f(self, ctx):"
    /\ sent[1] = <<>>

\* C2, as claimed: a message whose channel is not in PYTHON_HELP_CHANNEL_IDS
\* makes on_message send nothing at all.
C2_NoSendOutsideHelpChannels ==
    \A i \in Invocations :
        (inv[i].pc # "idle" /\ inv[i].message.channel \notin PYTHON_HELP_CHANNEL_IDS)
        => sent[i] = <<>>

\* C2, amended: a message whose channel is not in PYTHON_HELP_CHANNEL_IDS
\* runs no detector step and gets no aggregated reply; all that is sent for
\* it is the link of its ## shorthand and the link of its $$ shorthand, each
\* at most once.
C2_ChannelGate ==
    \A i \in Invocations :
        (inv[i].pc # "idle" /\ inv[i].message.channel \notin PYTHON_HELP_CHANNEL_IDS)
        => /\ inv[i].returned = <<>>
           /\ inv[i].pc \notin {"detect", "reply", "raised"}
           /\ Replies(i) = <<>>
           /\ Len(sent[i]) <= 2
           /\ \A k \in 1..Len(sent[i]) :
                 StartsWith(sent[i][k].content, "https://github.com/menudocs/")

\* C2 witness: a definition a detector matches, with shorthand, outside the
\* help channels of an allowed guild: only the link was sent.
C2_Witness ==
    /\ inv[1].pc = "done"
    /\ inv[1].message.guild = MAIN_GUILD
    /\ inv[1].message.channel = "416512197590777860"
    /\ inv[1].message.content = "##42 docs\n@bot.command()\nasync def f(self, ctx):"
    /\ Len(sent[1]) = 1
    /\ sent[1][1].content = "https://github.com/menudocs/docs/issues/42"

\* C3: for a message that passes both gates, a finished on_message has sent
\* one aggregated reply if a detector step returned an embed and none if no
\* step did; at no time has it sent more than one.
C3_OneAggregatedReply ==
    \A i \in Invocations :
        (inv[i].message.guild \in {MAIN_GUILD, PROJECT_GUILD}
            /\ inv[i].message.channel \in PYTHON_HELP_CHANNEL_IDS)
        => /\ Len(Replies(i)) <= 1
           /\ Finished(i) =>
                Len(Replies(i)) = (IF ReturnedCount(i) > 0 THEN 1 ELSE 0)

\* C3 witness: four detector steps returned an embed and one reply was sent.
C3_Witness ==
    /\ inv[1].pc = "done"
    /\ ReturnedCount(1) = 4
    /\ Len(Replies(1)) = 1

\* C4: in an allowed guild, in any channel, once the two link steps are over
\* a message holding ##<number> or $$<number>, with or without a repo name,
\* has got exactly the link of that number in the named repo, or in pyro when
\* none is named: /issues/ for ##, /pull/ for $$; a message holding both has
\* got both, the issue link first.
C4_CrossReferenceLinks ==
    \A i \in Invocations :
        (inv[i].message.guild \in {MAIN_GUILD, PROJECT_GUILD}
            /\ inv[i].pc \notin {"idle", "scope", "issue", "pr"})
        => /\ \A x \in XrefParts :
                inv[i].message.content = XrefText(x)
                => Links(i) = <<[channel |-> inv[i].message.channel,
                                 content |-> XrefUrl(x), embeds |-> <<>>]>>
           /\ \A ab \in BothParts :
                inv[i].message.content = BothText(ab)
                => Links(i) = <<[channel |-> inv[i].message.channel,
                                 content |-> XrefUrl(ab[2]), embeds |-> <<>>],
                                [channel |-> inv[i].message.channel,
                                 content |-> XrefUrl(ab[1]), embeds |-> <<>>]>>

\* C4 witness: "see $$42, ok" outside the help channels got the pull request
\* link of the default repo.
C4_Witness ==
    /\ inv[1].pc = "done"
    /\ inv[1].message.channel = "416512197590777860"
    /\ inv[1].message.content = "see $$42, ok"
    /\ sent[1] = <<[channel |-> "416512197590777860",
                    content |-> "https://github.com/menudocs/pyro/pull/42",
                    embeds |-> <<>>]>>

\* C5: however invocations for distinct messages interleave, what an
\* invocation has sent is the beginning of what on_message sends for its
\* message alone, and all of it once the invocation is over; its embed list
\* holds embeds of its own message only.
C5_InvocationsIndependent ==
    \A i \in Invocations :
        inv[i].pc # "idle"
        => /\ IsPrefix(sent[i], RunAlone(inv[i].message))
           /\ Finished(i) => sent[i] = RunAlone(inv[i].message)
           /\ \A k \in 1..Len(inv[i].auto_help_embeds) :
                \E d \in 1..Len(Detectors) :
                    inv[i].auto_help_embeds[k] = Detect(Detectors[d], inv[i].message)

\* C5 witness: two invocations are between detector steps together, each
\* with an embed collected.
C5_Witness ==
    /\ inv[1].pc = "detect" /\ Len(inv[1].auto_help_embeds) = 1
    /\ inv[2].pc = "detect" /\ Len(inv[2].auto_help_embeds) = 1
    /\ inv[1].message.id # inv[2].message.id

\* C6, as claimed: a detector step that raises does not end the invocation:
\* the other steps still run.
C6_DetectorFailureIsolated ==
    \A i \in Invocations :
        Len(SelectSeq(inv[i].returned, IsRaiseKind)) > 0
        => (inv[i].pc # "raised"
            /\ (Finished(i) => Len(inv[i].returned) = Len(Detectors)))

\* C7, as claimed: extract_code returns half as many segments as the text
\* has fences, rounded down.
C7_SegmentsAreHalfTheFences ==
    extracted.done => Len(extracted.content) = Count(text, Fence) \div 2

\* C8: the preface of an aggregated reply says "this" exactly when the reply
\* has one embed and "these" exactly when it has more, and the reply has as
\* many embeds as detector steps returned one.
C8_PrefaceNumber ==
    \A i \in Invocations :
        \A k \in 1..Len(sent[i]) :
            IsReply(sent[i][k])
            => /\ (sent[i][k].content = inv[i].message.author \o " this might help.")
                    <=> (Len(sent[i][k].embeds) = 1)
               /\ (sent[i][k].content = inv[i].message.author \o " these might help.")
                    <=> (Len(sent[i][k].embeds) > 1)
               /\ Len(sent[i][k].embeds) = ReturnedCount(i)

\* C8 witness: a reply with two embeds and the plural preface.
C8_Witness ==
    /\ inv[1].pc = "done"
    /\ Len(sent[1]) = 1
    /\ Len(sent[1][1].embeds) = 2
    /\ sent[1][1].content = "<@1> these might help."

\* C9: the embeds of an aggregated reply are those of the detectors that
\* return one for the message, in the order self removal, self addition,
\* pass_context, client/bot naming, invalid type.
C9_CatalogueOrder ==
    \A i \in Invocations :
        \A k \in 1..Len(sent[i]) :
            IsReply(sent[i][k])
            => LET Fires(d) == Detect(d, inv[i].message).kind = "Embed"
                   fired == SelectSeq(<<"requires_self_removal", "requires_self_addition",
                                        "pass_context", "client_bot",
                                        "invalid_ctx_or_inter_type">>, Fires)
               IN  /\ Len(sent[i][k].embeds) = Len(fired)
                   /\ \A e \in 1..Len(fired) :
                         sent[i][k].embeds[e] = Detect(fired[e], inv[i].message)

\* C9 witness: a reply with the embeds of self addition, pass_context,
\* client/bot naming and invalid type, in this order.
C9_Witness ==
    /\ Len(sent[1]) = 1
    /\ Len(sent[1][1].embeds) = 4
    /\ sent[1][1].embeds[1].detector = "requires_self_addition"
    /\ sent[1][1].embeds[2].detector = "pass_context"
    /\ sent[1][1].embeds[3].detector = "client_bot"
    /\ sent[1][1].embeds[4].detector = "invalid_ctx_or_inter_type"

\* C10: an embed of self removal, self addition or invalid type shows under
\* "New | Fixed" a string other than the one under "Old", both in the list
\* an invocation collects and in the reply it sends.
C10_FixDiffers ==
    \A i \in Invocations :
        /\ \A k \in 1..Len(inv[i].auto_help_embeds) :
              inv[i].auto_help_embeds[k].fix
              => inv[i].auto_help_embeds[k].new # inv[i].auto_help_embeds[k].old
        /\ \A k \in 1..Len(sent[i]) :
              \A e \in 1..Len(sent[i][k].embeds) :
                  sent[i][k].embeds[e].detector \in
                      {"requires_self_removal", "requires_self_addition",
                       "invalid_ctx_or_inter_type"}
                  => sent[i][k].embeds[e].new # sent[i][k].embeds[e].old

\* C10 witness: the self removal embed for "self,ctx", sent in a reply.
C10_Witness ==
    /\ Len(sent[1]) = 1
    /\ Len(sent[1][1].embeds) = 1
    /\ sent[1][1].embeds[1].detector = "requires_self_removal"
    /\ sent[1][1].embeds[1].old = "self,ctx"
    /\ sent[1][1].embeds[1].new = "ctx"

\* the decorators of a cog's event listeners and commands
CogDecorators ==
    {"@commands.Cog.listener()", "@commands.command()",
     "@commands.command(pass_context=True)", "@nextcord.slash_command()"}

\* a parameter list with self put in front as its first parameter
WithSelf(params) == IF params = "" THEN "self" ELSE "self, " \o params

\* C11: when an event-listener or command definition is matched and its
\* parameter list does not start with self, the diagnostic shows the definition
\* with self inserted as the first argument and all other text unchanged; when
\* the parameter list starts with self there is no diagnostic.
C11_SelfInserted ==
    \A i \in Invocations : \A d \in CogDecorators :
        \A p \in Params \cup {"ctx, x=d()", "self, x=d()"} :
            (/\ inv[i].pc # "idle"
             /\ inv[i].message.content = Definition(d, "", p, "):")
             /\ inv[i].message.me_avatar # "None"
             /\ Len(inv[i].returned) >= 2)
            => IF StartsWith(p, "self")
               THEN inv[i].returned[2] = "None"
               ELSE /\ inv[i].returned[2] = "Embed"
                    /\ \E k \in 1..Len(inv[i].auto_help_embeds) :
                         inv[i].auto_help_embeds[k] =
                             [kind |-> "Embed", detector |-> "requires_self_addition",
                              old |-> "async def f(" \o p \o "):",
                              new |-> "async def f(" \o WithSelf(p) \o "):",
                              fix |-> TRUE]

\* the decorators of a bot's free-function commands
FreeDecorators == {"@bot.command()", "@bot.slash_command()"}

\* a parameter list that starts with "self, " without this first parameter
WithoutSelf(params) == SubSeq(params, Len("self, ") + 1, Len(params))

\* C12: when a free-function command definition whose parameters start with
\* "self, ctx" is matched, the corrected parameter list is the original one
\* without its leading "self,": the remaining parameters are unchanged and no
\* blank or comma of the removal is left over ("self, ctx" gives "ctx").
C12_SelfRemoved ==
    \A i \in Invocations : \A d \in FreeDecorators :
        \A p \in {q \in Params : StartsWith(q, "self, ctx")} :
            (/\ inv[i].pc # "idle"
             /\ inv[i].message.content = Definition(d, "", p, "):")
             /\ inv[i].message.me_avatar # "None"
             /\ Len(inv[i].returned) >= 1)
            => /\ inv[i].returned[1] = "Embed"
               /\ inv[i].auto_help_embeds[1] =
                      [kind |-> "Embed", detector |-> "requires_self_removal",
                       old |-> p, new |-> WithoutSelf(p), fix |-> TRUE]

\* definitions whose first parameter after self is annotated: the decorator
\* with its handler kind, and the parameter list in its parts
TypedDecorators ==
    {[text |-> "@bot.command()", kind |-> "command"],
     [text |-> "@commands.command()", kind |-> "command"],
     [text |-> "@commands.command(pass_context=True)", kind |-> "command"],
     [text |-> "@bot.slash_command()", kind |-> "slash_command"],
     [text |-> "@nextcord.slash_command()", kind |-> "slash_command"]}

TypedParams ==
    {[self |-> "", arg |-> "ctx", type |-> "commands.Context"],
     [self |-> "", arg |-> "ctx", type |-> "Interaction"],
     [self |-> "self, ", arg |-> "i", type |-> "nextcord.Interaction"],
     [self |-> "self, ", arg |-> "ctx", type |-> "Context"]}

TypedAs(p, type) == p.self \o p.arg \o ": " \o type

\* the type the claim gives a handler of this kind with this annotation, ""
\* when the claim gives it no diagnostic
RightType(kind, type) ==
    IF kind = "command" /\ Contains(Lower(type), "interaction")
    THEN "commands.Context"
    ELSE IF kind # "command" /\ Contains(Lower(type), "context")
    THEN "nextcord.Interaction"
    ELSE ""

\* the outcome of the fifth detector step of invocation i for decorator d and
\* parameters p is the one C13 gives
ThreeOutcomes(i, d, p) ==
    LET right == RightType(d.kind, p.type)
        embeds == inv[i].auto_help_embeds
    IN  IF right # ""
        THEN /\ inv[i].returned[5] = "Embed"
             /\ embeds[Len(embeds)] =
                    [kind |-> "Embed", detector |-> "invalid_ctx_or_inter_type",
                     old |-> TypedAs(p, p.type), new |-> TypedAs(p, right),
                     fix |-> TRUE]
        ELSE /\ inv[i].returned[5] = "None"
             /\ \A k \in 1..Len(embeds) :
                    embeds[k].detector # "invalid_ctx_or_inter_type"

\* C13: on a match of invalid_ctx_or_inter_type exactly one of three outcomes
\* occurs: a command handler whose annotation mentions interaction is shown
\* with commands.Context, a slash, user or message command whose annotation
\* mentions context is shown with nextcord.Interaction, and every other matched
\* combination gets no diagnostic and no error.
C13_ThreeOutcomes ==
    \A i \in Invocations : \A d \in TypedDecorators : \A p \in TypedParams :
        (/\ inv[i].pc # "idle"
         /\ inv[i].message.content = Definition(d.text, "", TypedAs(p, p.type), "):")
         /\ Len(inv[i].returned) = 5)
        => ThreeOutcomes(i, d, p)

IsPlain(send) == send.embed = ""

\* no message the command worked on holds a code block
NoCodeBlock(messages) ==
    \A k \in 1..Len(messages) : extract_code(messages[k].content) = <<>>

\* C14: the invoking message is deleted only after a paste was created and
\* the "Find your paste here" reply was sent; on each early exit (more than two
\* messages given, no code block extracted, the paste host failing with its
\* exception) the command has sent exactly one plain message, no paste embed,
\* has not deleted the invoking message and has called the paste host at most
\* once, and not at all on the first two exits.
C14_PasteExits ==
    /\ paste.deleted
        => /\ paste.created = "entry"
           /\ \E k \in 1..Len(paste.sends) : paste.sends[k].embed = "Find your paste here"
    /\ Len(paste.calls) <= 1
    /\ (paste.pc = "done" /\ Len(paste.messages) > 2)
        => /\ paste.sends = <<CtxSend("I can only convert 1 or 2 messages to a paste", "")>>
           /\ paste.calls = <<>>
           /\ ~paste.deleted
    /\ (paste.pc = "done" /\ Len(paste.messages) \in 1..2 /\ NoCodeBlock(paste.messages))
        => /\ paste.sends = <<CtxSend("Couldn't extract anything to store", "")>>
           /\ paste.calls = <<>>
           /\ ~paste.deleted
    /\ (paste.pc = "done" /\ paste.created = "BaseAxewException")
        => /\ Len(paste.sends) = 1
           /\ IsPlain(paste.sends[1])
           /\ Len(paste.calls) = 1
           /\ ~paste.deleted

\* C14 witness: the paste host failed for a message with a code block, and the
\* command ended with its one plain message and the invoking message kept.
C14_Witness ==
    /\ paste.pc = "done"
    /\ paste.created = "BaseAxewException"
    /\ Len(paste.calls) = 1
    /\ paste.sends = <<CtxSend("BaseAxewException", "")>>
    /\ ~paste.deleted

====
